---- MODULE Spec2Model ----
(***************************************************************************)
(* Outcome tracker of the prediction pipeline (src/history_tracker.py):    *)
(* the persisted prediction log, log_prediction, check_prediction_results  *)
(* and the way _save_predictions rewrites the store file in place.          *)
(*                                                                         *)
(* Time is counted in whole hours.  Prices are integers (price units);     *)
(* the realized change is kept as an exact ratio, so comparisons with 0    *)
(* and with the 2% deadband are exact.  A nullable JSON value is <<>>      *)
(* (null) or <<v>>.                                                        *)
(***************************************************************************)
EXTENDS Integers, Sequences, FiniteSets, TLC

VARIABLES
    file,   \* content of PREDICTIONS_FILE
    now,    \* wall clock, hours
    last,   \* history: the operation that ran last, its inputs, the store before it
    ever,   \* history: the longest list of records a completed write has persisted
    ev,     \* one record before and after the loop body, for the correctness rule
    pc,     \* concurrent runs: where each process is in its handler
    loc,    \* concurrent runs: each process's in-memory predictions list
    hist    \* history of the concurrent runs: what completed operations recorded

vars == <<file, now, last, ever, ev, pc, loc, hist>>

-----------------------------------------------------------------------------
(* Bounds of the model *)

MaxRecords == 2
MaxTime == 36
TickStep == 12

-----------------------------------------------------------------------------
(* JSON null and values *)

None == <<>>
Some(v) == <<v>>
IsNone(x) == x = <<>>
Val(x) == x[1]

-----------------------------------------------------------------------------
(* Inputs *)

Directions == {"LONG", "SHORT", "NEUTRAL"}

\* signal_scores of a payload, in thousandths, for three of the sources
SignalScores(technical, news, fear_greed) ==
    [technical |-> technical, news |-> news, fear_greed |-> fear_greed]

\* the prediction payloads handed to log_prediction: direction, confidence (in
\* tenths of a percent), signal_scores, the timeframe string ("24h", "1d") as
\* number and unit letter, and current_price_usd, which generate_prediction
\* leaves None when neither price source answered and which is 0.0 when the
\* ticker carried no lastPrice
Predictions ==
    { [direction |-> "LONG", confidence |-> 700, signal_scores |-> SignalScores(500, -200, 0),
       current_price_usd |-> Some(100), timeframe |-> [num |-> 24, unit |-> "h"]],
      [direction |-> "SHORT", confidence |-> 600, signal_scores |-> SignalScores(-500, -200, 0),
       current_price_usd |-> Some(100), timeframe |-> [num |-> 1, unit |-> "d"]],
      [direction |-> "NEUTRAL", confidence |-> 300, signal_scores |-> SignalScores(100, -100, 0),
       current_price_usd |-> None, timeframe |-> [num |-> 24, unit |-> "h"]],
      [direction |-> "LONG", confidence |-> 500, signal_scores |-> SignalScores(300, 0, 0),
       current_price_usd |-> Some(0), timeframe |-> [num |-> 24, unit |-> "h"]] }

\* outcomes of the GET /ticker/price of one evaluation pass: an exception or
\* timeout, a non-200 status, or status 200 with a price
FetchOutcomes ==
    { [status |-> "exception", price |-> 0],
      [status |-> "non200", price |-> 0],
      [status |-> "ok", price |-> 99],
      [status |-> "ok", price |-> 101] }

-----------------------------------------------------------------------------
(* The store file *)

\* The file is "missing", holds a JSON list ("json", recs) or holds text that
\* does not parse ("partial").  size stands for the length of its text: the
\* number of records written and how many of them had their outcome fields
\* filled (a filled record is a little longer than one with four nulls, and
\* far shorter than two records).
NoText == [n |-> 0, filled |-> 0]

MissingFile == [state |-> "missing", recs |-> <<>>, size |-> NoText]

\* the file between open(PREDICTIONS_FILE, "w") and the end of json.dump:
\* truncated, its text not (yet) a JSON document
TruncatedFile == [state |-> "partial", recs |-> <<>>, size |-> NoText]

\* what open(PREDICTIONS_FILE, "r") and json.load do with a file that exists
ReadOutcome(f) ==
    IF f.state = "json" THEN "ok" ELSE "JSONDecodeError"

\* _load_predictions catching IOError only
CaughtOnLoad_IOErrorOnly == {"IOError"}

\* the exceptions the except clause of _load_predictions turns into []
CaughtOnLoad == {"JSONDecodeError", "IOError"}

\* _load_predictions lets the exception out to its caller
LoadRaises(f) ==
    /\ f.state # "missing"
    /\ ReadOutcome(f) \notin ({"ok"} \cup CaughtOnLoad)

load_predictions(f) ==
    IF f.state = "json" THEN f.recs ELSE <<>>

TextSize(predictions) ==
    [ n |-> Len(predictions),
      filled |-> Cardinality({i \in 1..Len(predictions) : predictions[i].was_correct # <<>>}) ]

Longer(a, b) ==
    a.n > b.n \/ (a.n = b.n /\ a.filled > b.filled)

\* json.dump and close on a handle opened with "w": the text is written from
\* offset 0 over what the file holds by then.  Text another writer put there
\* since the open, if longer, keeps its tail, and the result does not parse.
Dump(f, predictions) ==
    IF Longer(f.size, TextSize(predictions))
    THEN [state |-> "partial", recs |-> <<>>, size |-> f.size]
    ELSE [state |-> "json", recs |-> predictions, size |-> TextSize(predictions)]

save_predictions(predictions) ==
    Dump(TruncatedFile, predictions)

-----------------------------------------------------------------------------
(* log_prediction *)

\* NewRecord numbering from len(predictions), without the + 1
NewRecord_IdFromLen(predictions, prediction, t) ==
    [ id |-> Len(predictions),
      timestamp |-> t,
      direction |-> prediction.direction,
      confidence |-> prediction.confidence,
      price_at_prediction |-> prediction.current_price_usd,
      timeframe |-> prediction.timeframe,
      signal_scores |-> prediction.signal_scores,
      price_after |-> None,
      actual_change_pct |-> None,
      was_correct |-> None,
      checked_at |-> None ]

NewRecord(predictions, prediction, t) ==
    [ id |-> Len(predictions) + 1,
      timestamp |-> t,
      direction |-> prediction.direction,
      confidence |-> prediction.confidence,
      price_at_prediction |-> prediction.current_price_usd,
      timeframe |-> prediction.timeframe,
      signal_scores |-> prediction.signal_scores,
      price_after |-> None,
      actual_change_pct |-> None,
      was_correct |-> None,
      checked_at |-> None ]

log_prediction(f, prediction, t) ==
    LET predictions == load_predictions(f)
    IN  save_predictions(Append(predictions, NewRecord(predictions, prediction, t)))

-----------------------------------------------------------------------------
(* check_prediction_results *)

TimeframeHours(timeframe) ==
    IF timeframe.unit = "h" THEN timeframe.num ELSE timeframe.num * 24

IsChecked(pred) == ~IsNone(pred.was_correct)

\* NotEnoughTime with the comparison turned round
NotEnoughTime_Inverted(pred, t) ==
    t - pred.timestamp > TimeframeHours(pred.timeframe)

NotEnoughTime(pred, t) ==
    t - pred.timestamp < TimeframeHours(pred.timeframe)

NoPriceAt(pred) ==
    IsNone(pred.price_at_prediction) \/ Val(pred.price_at_prediction) = 0

\* Eligible without the "already checked" skip
Eligible_NoCheckedSkip(pred, t) ==
    /\ ~NotEnoughTime(pred, t)
    /\ ~NoPriceAt(pred)

\* the loop body reaches "Calculate result" for this record
Eligible(pred, t) ==
    /\ ~IsChecked(pred)
    /\ ~NotEnoughTime(pred, t)
    /\ ~NoPriceAt(pred)

Abs(x) == IF x < 0 THEN -x ELSE x

\* actual_change = ((current_price - price_at) / price_at) * 100, price_at > 0,
\* compared without rounding
\* WasCorrect with every comparison inclusive
WasCorrect_Inclusive(direction, current_price, price_at) ==
    IF direction = "LONG" THEN (current_price - price_at) * 100 >= 0
    ELSE IF direction = "SHORT" THEN (current_price - price_at) * 100 =< 0
    ELSE Abs(current_price - price_at) * 100 =< 2 * price_at

WasCorrect(direction, current_price, price_at) ==
    IF direction = "LONG" THEN (current_price - price_at) * 100 > 0
    ELSE IF direction = "SHORT" THEN (current_price - price_at) * 100 < 0
    ELSE Abs(current_price - price_at) * 100 < 2 * price_at

\* round(actual_change, 2), in hundredths of a percent (ties to even)
ActualChangePct(current_price, price_at) ==
    LET n == (current_price - price_at) * 10000
        q == n \div price_at
        r == n % price_at
    IN  IF 2 * r < price_at THEN q
        ELSE IF 2 * r > price_at THEN q + 1
        ELSE IF q % 2 = 0 THEN q ELSE q + 1

\* Evaluate that leaves checked_at unset
Evaluate_NoCheckedAt(pred, current_price, t) ==
    IF Eligible(pred, t)
    THEN [pred EXCEPT
            !.price_after = Some(current_price),
            !.actual_change_pct =
                Some(ActualChangePct(current_price, Val(pred.price_at_prediction))),
            !.was_correct =
                Some(WasCorrect(pred.direction, current_price, Val(pred.price_at_prediction)))]
    ELSE pred

Evaluate(pred, current_price, t) ==
    IF Eligible(pred, t)
    THEN [pred EXCEPT
            !.price_after = Some(current_price),
            !.actual_change_pct =
                Some(ActualChangePct(current_price, Val(pred.price_at_prediction))),
            !.was_correct =
                Some(WasCorrect(pred.direction, current_price, Val(pred.price_at_prediction))),
            !.checked_at = Some(t)]
    ELSE pred

\* EvaluateAndSave whose updated flag is never set, so that nothing is saved
EvaluateAndSave_NeverUpdated(f, predictions, current_price, t) == f

\* the updated flag after the loop
Updated(predictions, t) ==
    \E i \in 1..Len(predictions) : Eligible(predictions[i], t)

\* the in-memory list after the loop
EvaluateAll(predictions, current_price, t) ==
    [i \in 1..Len(predictions) |-> Evaluate(predictions[i], current_price, t)]

\* int(...) of a timeframe string that is not a number followed by h or d
\* ("1w") raises ValueError
TimeframeRaises(timeframe) == timeframe.unit \notin {"h", "d"}

\* the loop reaches the timeframe of every unchecked record; the ValueError
\* is caught nowhere and ends the pass before _save_predictions
PassRaises(predictions) ==
    \E i \in 1..Len(predictions) :
        ~IsChecked(predictions[i]) /\ TimeframeRaises(predictions[i].timeframe)

\* a pass that saves the list whether or not a record was updated
EvaluateAndSave_AlwaysSave(f, predictions, current_price, t) ==
    IF PassRaises(predictions) THEN f
    ELSE save_predictions(EvaluateAll(predictions, current_price, t))

\* the loop over the loaded list and the final "if updated: _save_predictions"
EvaluateAndSave(f, predictions, current_price, t) ==
    IF PassRaises(predictions) THEN f
    ELSE IF Updated(predictions, t)
    THEN save_predictions(EvaluateAll(predictions, current_price, t))
    ELSE f

\* check_prediction_results that goes on with the fetched price field (0) when
\* the fetch failed, instead of returning
check_prediction_results_NoAbort(f, fetch, t) ==
    EvaluateAndSave(f, load_predictions(f), fetch.price, t)

check_prediction_results(f, fetch, t) ==
    LET predictions == load_predictions(f)
    IN  IF fetch.status = "ok"
        THEN EvaluateAndSave(f, predictions, fetch.price, t)
        ELSE f

\* the pass ends with an exception
CheckRaises(f, fetch) ==
    \/ LoadRaises(f)
    \/ fetch.status = "ok" /\ PassRaises(load_predictions(f))

-----------------------------------------------------------------------------
(* get_accuracy_stats: the records it counts *)

Checked(predictions) ==
    SelectSeq(predictions, LAMBDA p : p.was_correct # <<>>)

Correct(predictions) ==
    SelectSeq(Checked(predictions), LAMBDA p : Val(p.was_correct))

-----------------------------------------------------------------------------
(* History *)

NoFetch == [status |-> "none", price |-> 0]

Ever(f, e) ==
    IF f.state = "json" /\ Len(f.recs) > Len(e) THEN f.recs ELSE e

NoEval == [phase |-> "none", pred |-> <<>>, price |-> 0]

\* the processes that use the store at the same time: the dashboard, whose
\* trigger runs the pipeline (log_prediction, then an evaluation pass), and
\* the command line's --check-results, which runs an evaluation pass only
Procs == {"dashboard", "cli"}
PipelineProcs == {"dashboard"}

NoLocal == [predictions |-> <<>>, old |-> <<>>]
IdleProcs == [p \in Procs |-> "idle"]
NoLocals == [p \in Procs |-> NoLocal]
NoHist == [nlogged |-> 0, scored |-> {}]

-----------------------------------------------------------------------------
(* Sequential specification: one pipeline process, handlers run to completion *)

Init ==
    /\ file = MissingFile
    /\ now = 0
    /\ last = [op |-> "init", pre |-> MissingFile, fetch |-> NoFetch, at |-> 0]
    /\ ever = <<>>
    /\ ev = NoEval
    /\ pc = IdleProcs
    /\ loc = NoLocals
    /\ hist = NoHist

LogPrediction(prediction) ==
    /\ Len(load_predictions(file)) < MaxRecords
    /\ file' = IF LoadRaises(file) THEN file ELSE log_prediction(file, prediction, now)
    /\ last' = [op |-> IF LoadRaises(file) THEN "log_raised" ELSE "log",
                pre |-> file, fetch |-> NoFetch, at |-> now]
    /\ ever' = Ever(file', ever)
    /\ UNCHANGED <<now, ev, pc, loc, hist>>

\* log_prediction stopped inside _save_predictions, after open(..., "w")
\* truncated the file and before json.dump completed
LogPredictionInterrupted ==
    /\ file.state = "json"
    /\ Len(load_predictions(file)) < MaxRecords
    /\ file' = TruncatedFile
    /\ last' = [op |-> "interrupted", pre |-> file, fetch |-> NoFetch, at |-> now]
    /\ UNCHANGED <<now, ever, ev, pc, loc, hist>>

CheckPredictionResults(fetch) ==
    /\ file' = IF LoadRaises(file) THEN file ELSE check_prediction_results(file, fetch, now)
    /\ last' = [op |-> IF CheckRaises(file, fetch) THEN "check_raised" ELSE "check",
                pre |-> file, fetch |-> fetch, at |-> now]
    /\ ever' = Ever(file', ever)
    /\ UNCHANGED <<now, ev, pc, loc, hist>>

Tick ==
    /\ now + TickStep <= MaxTime
    /\ now' = now + TickStep
    /\ UNCHANGED <<file, last, ever, ev, pc, loc, hist>>

Next ==
    \/ \E prediction \in Predictions : LogPrediction(prediction)
    \/ LogPredictionInterrupted
    \/ \E fetch \in FetchOutcomes : CheckPredictionResults(fetch)
    \/ Tick

Spec == Init /\ [][Next]_vars

\* the pipeline is run again and again and the price fetch succeeds again and
\* again: a pass with a successful fetch is never postponed forever
SpecFair ==
    /\ Init
    /\ [][Next]_vars
    /\ WF_vars(\E fetch \in FetchOutcomes :
                  fetch.status = "ok" /\ CheckPredictionResults(fetch))

-----------------------------------------------------------------------------
(* json.dump and json.load on a list of records *)

\* A Python value, by type.  The strings of a record are its ISO timestamps,
\* its direction and its timeframe.
PyNone == [type |-> "NoneType", v |-> <<>>]
PyBool(b) == [type |-> "bool", v |-> b]
PyNumber(n) == [type |-> "number", v |-> n]
PyStr(kind, x) == [type |-> "str", v |-> <<kind, x>>]

PyOptional(x, Wrap(_)) == IF IsNone(x) THEN PyNone ELSE Wrap(Val(x))
PyIso(t) == PyStr("iso", t)

\* the keys of a record, in the order log_prediction inserts them
RecordKeys ==
    << "id", "timestamp", "direction", "price_at_prediction", "timeframe",
       "price_after", "actual_change_pct", "was_correct", "checked_at" >>

\* the dict that a record of the model stands for
ToPy(pred) ==
    [ id |-> PyNumber(pred.id),
      timestamp |-> PyIso(pred.timestamp),
      direction |-> PyStr("direction", pred.direction),
      price_at_prediction |-> PyOptional(pred.price_at_prediction, PyNumber),
      timeframe |-> PyStr("timeframe", pred.timeframe),
      price_after |-> PyOptional(pred.price_after, PyNumber),
      actual_change_pct |-> PyOptional(pred.actual_change_pct, PyNumber),
      was_correct |-> PyOptional(pred.was_correct, PyBool),
      checked_at |-> PyOptional(pred.checked_at, PyIso) ]

\* the JSON text of one value: null, true, false, a number or a string;
\* a value of any other type goes through default=str and is written as the
\* string str(value)
JsonNull == [tok |-> "null", v |-> <<>>]

\* an encoder that sends every value that is not a string through str
ToJson_AllStr(x) ==
    IF x.type = "str" THEN [tok |-> "string", v |-> x.v]
    ELSE [tok |-> "string", v |-> <<"str()", x>>]

ToJson(x) ==
    CASE x.type = "NoneType" -> JsonNull
      [] x.type = "bool" -> [tok |-> IF x.v THEN "true" ELSE "false", v |-> <<>>]
      [] x.type = "number" -> [tok |-> "number", v |-> x.v]
      [] x.type = "str" -> [tok |-> "string", v |-> x.v]
      [] OTHER -> [tok |-> "string", v |-> <<"str()", x>>]

FromJson(j) ==
    CASE j.tok = "null" -> PyNone
      [] j.tok = "true" -> PyBool(TRUE)
      [] j.tok = "false" -> PyBool(FALSE)
      [] j.tok = "number" -> PyNumber(j.v)
      [] j.tok = "string" -> [type |-> "str", v |-> j.v]

\* an object is written as its members, key and value, in insertion order
JsonObject(d) ==
    [k \in 1..Len(RecordKeys) |-> <<RecordKeys[k], ToJson(d[RecordKeys[k]])>>]

json_dump(predictions) ==
    [i \in 1..Len(predictions) |-> JsonObject(predictions[i])]

\* an object is read back as a dict; of two members with one key the later wins
PyDict(members) ==
    LET LastOf(key) ==
            CHOOSE k \in 1..Len(members) :
                /\ members[k][1] = key
                /\ \A l \in 1..Len(members) : members[l][1] = key => l <= k
    IN  [key \in {members[k][1] : k \in 1..Len(members)} |->
            FromJson(members[LastOf(key)][2])]

json_load(text) ==
    [i \in 1..Len(text) |-> PyDict(text[i])]

-----------------------------------------------------------------------------
(* The store under all three of its operations: the sequential specification
   with the statistics request of the dashboard and the command line *)

GetAccuracyStats ==
    /\ last' = [op |-> IF LoadRaises(file) THEN "stats_raised" ELSE "stats",
                pre |-> file, fetch |-> NoFetch, at |-> now]
    /\ UNCHANGED <<file, now, ever, ev, pc, loc, hist>>

NextStore ==
    \/ Next
    \/ GetAccuracyStats

SpecStore == Init /\ [][NextStore]_vars

-----------------------------------------------------------------------------
(* The correctness rule on its own: one mature, unchecked record with a price,
   evaluated against one reference price *)

EvalPricesAt == {100, 200}
EvalPricesAfter == {98, 99, 100, 101, 102, 103, 196, 197, 198, 200, 202, 203, 204, 206}

InitEval ==
    /\ file = MissingFile
    /\ now = 24
    /\ last = [op |-> "init", pre |-> MissingFile, fetch |-> NoFetch, at |-> 0]
    /\ ever = <<>>
    /\ pc = IdleProcs
    /\ loc = NoLocals
    /\ hist = NoHist
    /\ \E direction \in Directions, price_at \in EvalPricesAt, price \in EvalPricesAfter :
          ev = [ phase |-> "pending",
                 pred |-> NewRecord(<<>>,
                            [ direction |-> direction,
                              confidence |-> 700,
                              signal_scores |-> SignalScores(500, -200, 0),
                              current_price_usd |-> Some(price_at),
                              timeframe |-> [num |-> 24, unit |-> "h"] ], 0),
                 price |-> price ]

EvaluateRecord ==
    /\ ev.phase = "pending"
    /\ ev' = [ev EXCEPT !.phase = "evaluated",
                        !.pred = Evaluate(ev.pred, ev.price, now)]
    /\ UNCHANGED <<file, now, last, ever, pc, loc, hist>>

SpecEval == InitEval /\ [][EvaluateRecord]_vars

-----------------------------------------------------------------------------
(* Concurrent specification: two processes run log_prediction and
   check_prediction_results on the same store file.  A handler is cut at its
   file operations and at the await of the price fetch: _load_predictions,
   the fetch, open(PREDICTIONS_FILE, "w") and json.dump. *)

\* a store on which one prediction was logged a timeframe ago
InitConc ==
    /\ file = log_prediction(MissingFile,
                 [ direction |-> "LONG", confidence |-> 700,
                   signal_scores |-> SignalScores(500, -200, 0),
                   current_price_usd |-> Some(100),
                   timeframe |-> [num |-> 24, unit |-> "h"] ], 0)
    /\ now = 24
    /\ last = [op |-> "init", pre |-> MissingFile, fetch |-> NoFetch, at |-> 0]
    /\ ever = <<>>
    /\ ev = NoEval
    /\ pc = IdleProcs
    /\ loc = NoLocals
    /\ hist = [nlogged |-> 1, scored |-> {}]

\* log_prediction up to predictions.append(record)
LogLoad(p, prediction) ==
    /\ p \in PipelineProcs
    /\ pc[p] = "idle"
    /\ hist.nlogged < MaxRecords
    /\ LET predictions == load_predictions(file)
       IN  loc' = [loc EXCEPT ![p] =
                     [ predictions |-> Append(predictions,
                                             NewRecord(predictions, prediction, now)),
                       old |-> <<>> ]]
    /\ pc' = [pc EXCEPT ![p] = "log_save"]
    /\ UNCHANGED <<file, now, last, ever, ev, hist>>

\* check_prediction_results up to the await of the price request
CheckLoad(p) ==
    /\ pc[p] = "idle"
    /\ loc' = [loc EXCEPT ![p] = [predictions |-> load_predictions(file), old |-> <<>>]]
    /\ pc' = [pc EXCEPT ![p] = "check_fetch"]
    /\ UNCHANGED <<file, now, last, ever, ev, hist>>

\* the price request returns; the loop runs on the list loaded before it
CheckFetch(p, fetch) ==
    /\ pc[p] = "check_fetch"
    /\ IF fetch.status = "ok" /\ Updated(loc[p].predictions, now)
       THEN /\ loc' = [loc EXCEPT ![p].predictions =
                          EvaluateAll(loc[p].predictions, fetch.price, now)]
            /\ pc' = [pc EXCEPT ![p] = "check_save"]
       ELSE /\ loc' = [loc EXCEPT ![p] = NoLocal]
            /\ pc' = [pc EXCEPT ![p] = "idle"]
    /\ UNCHANGED <<file, now, last, ever, ev, hist>>

\* _save_predictions: open(PREDICTIONS_FILE, "w") truncates the file
SaveOpen(p) ==
    /\ pc[p] \in {"log_save", "check_save"}
    /\ file' = TruncatedFile
    /\ loc' = [loc EXCEPT ![p].old = load_predictions(file)]
    /\ pc' = [pc EXCEPT ![p] = IF pc[p] = "log_save" THEN "log_dump" ELSE "check_dump"]
    /\ UNCHANGED <<now, last, ever, ev, hist>>

\* ids of the records a pass has given an outcome
NewlyChecked(predictions) ==
    {predictions[i].id : i \in {j \in 1..Len(predictions) : IsChecked(predictions[j])}}

\* _save_predictions: json.dump writes the list and the file is closed
SaveDump(p) ==
    /\ pc[p] \in {"log_dump", "check_dump"}
    /\ file' = Dump(file, loc[p].predictions)
    /\ hist' = IF pc[p] = "log_dump"
               THEN [hist EXCEPT !.nlogged = @ + 1]
               ELSE [hist EXCEPT !.scored = @ \cup NewlyChecked(loc[p].predictions)]
    /\ loc' = [loc EXCEPT ![p] = NoLocal]
    /\ pc' = [pc EXCEPT ![p] = "idle"]
    /\ UNCHANGED <<now, last, ever, ev>>

NextConc ==
    \/ \E p \in Procs, prediction \in Predictions : LogLoad(p, prediction)
    \/ \E p \in Procs : CheckLoad(p)
    \/ \E p \in Procs, fetch \in FetchOutcomes : CheckFetch(p, fetch)
    \/ \E p \in Procs : SaveOpen(p)
    \/ \E p \in Procs : SaveDump(p)

SpecConc == InitConc /\ [][NextConc]_vars

\* what _load_predictions returns to a reader (the dashboard's /api/history,
\* get_accuracy_stats) at this instant
ReaderView == load_predictions(file)

-----------------------------------------------------------------------------
(* Properties of the sequential specification *)

Stored == load_predictions(file)
Before == load_predictions(last.pre)

Outcome(pred) ==
    <<pred.price_after, pred.actual_change_pct, pred.was_correct, pred.checked_at>>

Creation(pred) ==
    <<pred.id, pred.timestamp, pred.direction, pred.confidence,
      pred.price_at_prediction, pred.timeframe, pred.signal_scores>>

\* C1: a record that was CHECKED before an evaluation pass or a log_prediction
\* is still in the log after it, with price_after, actual_change_pct,
\* was_correct and checked_at as they were, whatever price the pass fetched
\* and whatever the time.
C1_CheckedOutcomeFrozen ==
    last.op \in {"check", "log"} =>
        \A i \in 1..Len(Before) :
            IsChecked(Before[i]) =>
                /\ i <= Len(Stored)
                /\ Outcome(Stored[i]) = Outcome(Before[i])

\* a pass with a successful fetch ran over a record checked earlier, at a
\* later time and with another reference price than the one recorded
C1_Witness ==
    /\ last.op = "check"
    /\ last.fetch.status = "ok"
    /\ \E i \in 1..Len(Before) :
          /\ IsChecked(Before[i])
          /\ Val(Before[i].price_after) # last.fetch.price
          /\ Val(Before[i].checked_at) < last.at

AllNull(pred) ==
    /\ IsNone(pred.price_after)
    /\ IsNone(pred.actual_change_pct)
    /\ IsNone(pred.was_correct)
    /\ IsNone(pred.checked_at)

AllSet(pred) ==
    /\ ~IsNone(pred.price_after)
    /\ ~IsNone(pred.actual_change_pct)
    /\ ~IsNone(pred.was_correct)
    /\ ~IsNone(pred.checked_at)

\* C2: every record of the persisted log has its four outcome fields all null
\* or all non-null, and the record log_prediction has just appended has all
\* four null.
C2_OutcomeAllOrNothing ==
    /\ \A i \in 1..Len(Stored) : AllNull(Stored[i]) \/ AllSet(Stored[i])
    /\ last.op = "log" => AllNull(Stored[Len(Stored)])

\* a pass has just filled the outcome of one record beside a pending one
C2_Witness ==
    /\ last.op = "check"
    /\ \E i, j \in 1..Len(Stored) :
          /\ AllSet(Stored[i]) /\ AllNull(Before[i])
          /\ AllNull(Stored[j])

\* C3: a pass whose price fetch failed (exception, timeout, non-200 status)
\* leaves the store exactly as it was: nothing is written and no record
\* becomes checked.
C3_FailedFetchAbortsPass ==
    (last.op = "check" /\ last.fetch.status # "ok") => file = last.pre

\* a pass failed its fetch while a mature, unchecked record with a price was
\* in the log
C3_Witness ==
    /\ last.op = "check"
    /\ last.fetch.status = "non200"
    /\ \E i \in 1..Len(Before) : Eligible(Before[i], last.at)

\* C4: a pass marks a record checked only if now - timestamp >= the record's
\* timeframe; a record with now - timestamp < timeframe stays pending, and
\* every checked record of the log was checked no earlier than that.
C4_NoCheckBeforeTimeframe ==
    /\ \A i \in 1..Len(Stored) :
          IsChecked(Stored[i]) =>
              Val(Stored[i].checked_at) - Stored[i].timestamp
                  >= TimeframeHours(Stored[i].timeframe)
    /\ last.op = "check" =>
          \A i \in 1..Len(Before) :
              (~IsChecked(Before[i])
                 /\ last.at - Before[i].timestamp < TimeframeHours(Before[i].timeframe))
              => (i <= Len(Stored) /\ ~IsChecked(Stored[i]))

\* one pass checked a record exactly one timeframe old and left a younger
\* record with a price pending
C4_Witness ==
    /\ last.op = "check"
    /\ last.fetch.status = "ok"
    /\ \E i, j \in 1..Len(Stored) :
          /\ ~IsChecked(Before[i]) /\ IsChecked(Stored[i])
          /\ last.at - Stored[i].timestamp = TimeframeHours(Stored[i].timeframe)
          /\ ~IsChecked(Stored[j]) /\ ~NoPriceAt(Stored[j])
          /\ last.at - Stored[j].timestamp < TimeframeHours(Stored[j].timeframe)

IsPrefix(s, t) ==
    /\ Len(s) <= Len(t)
    /\ \A i \in 1..Len(s) : s[i] = t[i]

CreationOf(recs) == [i \in 1..Len(recs) |-> Creation(recs[i])]

\* C7: append-only store: whenever the store holds a log, every record that a
\* completed write has ever persisted is still in it, in the same order (so
\* the number of persisted records never decreases).
C7_AppendOnly ==
    file.state = "json" => IsPrefix(CreationOf(ever), CreationOf(file.recs))

\* C8: the k-th record of the persisted log has id k, so ids are unique.
C8_SequentialIds ==
    /\ \A k \in 1..Len(Stored) : Stored[k].id = k
    /\ \A j, k \in 1..Len(Stored) : Stored[j].id = Stored[k].id => j = k

\* log_prediction has appended to a log that already held a record
C8_Witness ==
    /\ last.op = "log"
    /\ Len(Before) >= 1
    /\ Len(Stored) = Len(Before) + 1

-----------------------------------------------------------------------------
(* The correctness rule *)

EvDirection == ev.pred.direction
EvPriceAt == Val(ev.pred.price_at_prediction)
EvWasCorrect == Val(ev.pred.was_correct)

\* the realized change c = (price_after - price_at) / price_at * 100 of the
\* evaluated record, as the exact ratio ChangeNum / ChangeDen
ChangeNum == (Val(ev.pred.price_after) - EvPriceAt) * 100
ChangeDen == EvPriceAt

Example(direction, price_at, price_after, correct) ==
    (EvDirection = direction /\ EvPriceAt = price_at /\ ev.price = price_after)
        => EvWasCorrect = correct

\* C5: an evaluated record has was_correct = (c > 0) for LONG, (c < 0) for
\* SHORT and (|c| < 2) for NEUTRAL, c being the realized change in percent;
\* LONG 100->101 is correct, LONG 100->99 is not, NEUTRAL +1.5% (200->203) is
\* correct, NEUTRAL 100->103 is not, and a change of 0 makes LONG and SHORT
\* both incorrect.
C5_CorrectnessRule ==
    ev.phase = "evaluated" =>
        /\ IsChecked(ev.pred)
        /\ Val(ev.pred.price_after) = ev.price
        /\ EvDirection = "LONG" => (EvWasCorrect <=> ChangeNum > 0 * ChangeDen)
        /\ EvDirection = "SHORT" => (EvWasCorrect <=> ChangeNum < 0 * ChangeDen)
        /\ EvDirection = "NEUTRAL" =>
              (EvWasCorrect <=> (ChangeNum < 2 * ChangeDen /\ -ChangeNum < 2 * ChangeDen))
        /\ Example("LONG", 100, 101, TRUE)
        /\ Example("LONG", 100, 99, FALSE)
        /\ Example("NEUTRAL", 200, 203, TRUE)
        /\ Example("NEUTRAL", 100, 103, FALSE)
        /\ Example("LONG", 100, 100, FALSE)
        /\ Example("SHORT", 100, 100, FALSE)

\* a NEUTRAL record evaluated at a change of exactly 2% was scored incorrect
C5_Witness ==
    /\ ev.phase = "evaluated"
    /\ EvDirection = "NEUTRAL"
    /\ ChangeNum = 2 * ChangeDen
    /\ EvWasCorrect = FALSE

-----------------------------------------------------------------------------
(* At-least-once evaluation *)

Present(i) == i <= Len(Stored)

MaturePending(i) ==
    /\ Present(i)
    /\ ~IsChecked(Stored[i])
    /\ ~NotEnoughTime(Stored[i], now)

-----------------------------------------------------------------------------
(* Concurrent use of the store *)

Quiescent == \A p \in Procs : pc[p] = "idle"

\* C9: no lost update: once every interleaved log_prediction and evaluation
\* pass has returned, the store holds a record for every log_prediction that
\* completed, and every record a completed pass scored is in it and CHECKED.
C9_NoLostUpdate ==
    Quiescent =>
        /\ Len(ReaderView) >= hist.nlogged
        /\ \A id \in hist.scored :
              \E i \in 1..Len(ReaderView) :
                  ReaderView[i].id = id /\ IsChecked(ReaderView[i])

\* C10: while _save_predictions is writing a non-empty list over the store, a
\* reader gets the complete old log or the complete new log.
C10_AtomicWrite ==
    \A p \in Procs :
        (pc[p] \in {"log_dump", "check_dump"} /\ loc[p].predictions # <<>>)
            => ReaderView \in {loc[p].old, loc[p].predictions}

-----------------------------------------------------------------------------
(* Save and reload on their own: a list of records as the operations build
   it, written by _save_predictions and read back by _load_predictions *)

JsonOutcomes == {"pending", "checked"}
JsonChoices == Predictions \X JsonOutcomes

\* the list after one log_prediction per choice at time 0 and, for the
\* choices marked "checked", an evaluation at time 24 against the price 101
RECURSIVE BuildList(_)
BuildList(choices) ==
    IF choices = <<>> THEN <<>>
    ELSE LET front == BuildList(SubSeq(choices, 1, Len(choices) - 1))
             choice == choices[Len(choices)]
             pred == NewRecord(front, choice[1], 0)
         IN  Append(front, IF choice[2] = "checked" THEN Evaluate(pred, 101, 24) ELSE pred)

JsonLists ==
    UNION { {BuildList(choices) : choices \in [1..n -> JsonChoices]} : n \in 1..MaxRecords }

PyList(predictions) ==
    [i \in 1..Len(predictions) |-> ToPy(predictions[i])]

InitJson ==
    /\ file = MissingFile
    /\ now = 24
    /\ last = [op |-> "init", pre |-> MissingFile, fetch |-> NoFetch, at |-> 0]
    /\ ever = <<>>
    /\ pc = IdleProcs
    /\ loc = NoLocals
    /\ hist = NoHist
    /\ \E predictions \in JsonLists :
          ev = [ phase |-> "memory", predictions |-> PyList(predictions),
                 text |-> <<>>, loaded |-> <<>> ]

SavePredictions ==
    /\ ev.phase = "memory"
    /\ ev' = [ev EXCEPT !.phase = "saved", !.text = json_dump(ev.predictions)]
    /\ UNCHANGED <<file, now, last, ever, pc, loc, hist>>

LoadPredictions ==
    /\ ev.phase = "saved"
    /\ ev' = [ev EXCEPT !.phase = "loaded", !.loaded = json_load(ev.text)]
    /\ UNCHANGED <<file, now, last, ever, pc, loc, hist>>

NextJson ==
    \/ SavePredictions
    \/ LoadPredictions

SpecJson == InitJson /\ [][NextJson]_vars

-----------------------------------------------------------------------------
(* The prediction engine.  Scores are in thousandths, weights in hundredths,
   so a product of the two is in units of 1/100000. *)

\* a value that reaches _normalize_score: None, a number, or a string that is
\* not a numeral (an upstream answer such as "bullish")
RawNone == [kind |-> "none", v |-> 0]
RawNumber(n) == [kind |-> "number", v |-> n]
RawText == [kind |-> "text", v |-> 0]

\* the sources, in the order generate_prediction puts them in its scores dict
Sources == <<"technical", "onchain", "whales", "news", "social", "fear_greed", "youtube">>
SourceSet == {Sources[i] : i \in 1..Len(Sources)}

\* config.SIGNAL_WEIGHTS
SIGNAL_WEIGHTS ==
    [ technical |-> 30, onchain |-> 20, news |-> 18, social |-> 15,
      fear_greed |-> 10, youtube |-> 7 ]

\* weights.get(key, 0)
WeightOf(weights, key) ==
    IF key \in DOMAIN weights THEN weights[key] ELSE 0

\* round(n / d, 0) for d > 0, ties to even.  (On a tie the float that Python
\* rounds may lie on either side; no property below depends on a tie.)
RoundHalfEven(n, d) ==
    LET q == n \div d
        r == n % d
    IN  IF 2 * r < d THEN q
        ELSE IF 2 * r > d THEN q + 1
        ELSE IF q % 2 = 0 THEN q ELSE q + 1

Max(a, b) == IF a >= b THEN a ELSE b
Min(a, b) == IF a <= b THEN a ELSE b

\* float(score) raises ValueError on a string that is not a numeral
NormalizeRaises(score) == score.kind = "text"

\* _normalize_score without the clamp
normalize_score_NoClamp(score) ==
    IF score.kind = "none" THEN 0 ELSE score.v

normalize_score(score) ==
    IF score.kind = "none" THEN 0 ELSE Max(-1000, Min(1000, score.v))

\* round((50 - value) / 50, 3)
fear_greed_to_score(fg_data) ==
    IF fg_data.current_value.kind = "none" THEN 0
    ELSE RoundHalfEven((50 - fg_data.current_value.v) * 1000, 50)

MapGet(map, key) == IF key \in DOMAIN map THEN map[key] ELSE 0

onchain_to_score(onchain_data) ==
    LET pressure_map == [strong_buy |-> 800, buy |-> 400, neutral |-> 0,
                         sell |-> -400, strong_sell |-> -800]
        trend_map == [growing |-> 500, stable |-> 0, declining |-> -500]
        tvl_change == onchain_data.tvl_change_7d_pct
        bucket == IF tvl_change > 5 THEN 400
                  ELSE IF tvl_change > 2 THEN 200
                  ELSE IF tvl_change < -5 THEN -400
                  ELSE IF tvl_change < -2 THEN -200
                  ELSE 0
    IN  RoundHalfEven(MapGet(pressure_map, onchain_data.buy_pressure)
                      + MapGet(trend_map, onchain_data.tvl_trend) + bucket, 3)

whale_to_score(whale_data) ==
    LET size == Abs(whale_data.net_flow_sol)
        magnitude == IF size > 5000 THEN 800 ELSE IF size > 1000 THEN 500 ELSE 300
    IN  IF whale_data.flow_direction = "accumulating" THEN magnitude
        ELSE IF whale_data.flow_direction = "distributing" THEN -magnitude
        ELSE 0

\* ai_analysis.get(name, {}).get("sentiment_score"): the sub-dict may be
\* absent, or present without the key
SentimentScore(sub) ==
    IF sub.dict = "absent" \/ sub.dict = "no_key" THEN RawNone ELSE sub.sentiment_score

\* the seven values handed to _normalize_score
RawScores(inputs) ==
    [ technical |-> inputs.technical_score,
      onchain |-> RawNumber(onchain_to_score(inputs.onchain_data)),
      whales |-> RawNumber(whale_to_score(inputs.whale_data)),
      news |-> SentimentScore(inputs.news_sentiment),
      social |-> SentimentScore(inputs.social_sentiment),
      fear_greed |-> RawNumber(fear_greed_to_score(inputs.fear_greed_data)),
      youtube |-> SentimentScore(inputs.youtube_sentiment) ]

Scores(inputs) ==
    [key \in SourceSet |-> normalize_score(RawScores(inputs)[key])]

RECURSIVE SumOver(_, _)
SumOver(f, keys) ==
    IF keys = {} THEN 0
    ELSE LET key == CHOOSE k \in keys : TRUE
         IN  f[key] + SumOver(f, keys \ {key})

\* sum(scores[key] * weights.get(key, 0) for key in scores), before rounding
WeightedSum(scores, weights) ==
    SumOver([key \in SourceSet |-> scores[key] * WeightOf(weights, key)], SourceSet)

\* round(weighted_score, 3)
WeightedScore(scores, weights) ==
    RoundHalfEven(WeightedSum(scores, weights), 100)

DirectionThreshold == 150

Direction(weighted_score) ==
    IF weighted_score > DirectionThreshold THEN "LONG"
    ELSE IF weighted_score < -DirectionThreshold THEN "SHORT"
    ELSE "NEUTRAL"

ActiveThreshold == 50

PositiveSignals(scores) == Cardinality({key \in SourceSet : scores[key] > ActiveThreshold})
NegativeSignals(scores) == Cardinality({key \in SourceSet : scores[key] < -ActiveThreshold})

\* agreement, as a fraction
Agreement(scores) ==
    LET total_active == PositiveSignals(scores) + NegativeSignals(scores)
    IN  IF total_active > 0
        THEN [num |-> Max(PositiveSignals(scores), NegativeSignals(scores)), den |-> total_active]
        ELSE [num |-> 1, den |-> 2]

\* base_confidence * (0.7 + 0.3 * agreement), in percent, as a fraction:
\* |weighted_score| / 10 * (7 * den + 3 * num) / (10 * den)
BoostedNum(weighted_score, agreement) ==
    Abs(weighted_score) * (7 * agreement.den + 3 * agreement.num)
BoostedDen(agreement) == 100 * agreement.den

\* confidence without the agreement factor
Confidence_BaseOnly(weighted_score, agreement) ==
    Min(1000, Abs(weighted_score))

\* round(min(100, ...), 1), in tenths of a percent
Confidence(weighted_score, agreement) ==
    IF BoostedNum(weighted_score, agreement) >= 100 * BoostedDen(agreement)
    THEN 1000
    ELSE RoundHalfEven(10 * BoostedNum(weighted_score, agreement), BoostedDen(agreement))

\* config.CONFIDENCE_HIGH, CONFIDENCE_MEDIUM, CONFIDENCE_LOW, in tenths of a percent
CONFIDENCE_HIGH == 750
CONFIDENCE_MEDIUM == 500
CONFIDENCE_LOW == 300

Strength(confidence) ==
    IF confidence >= CONFIDENCE_HIGH THEN "STRONG"
    ELSE IF confidence >= CONFIDENCE_MEDIUM THEN "MODERATE"
    ELSE IF confidence >= CONFIDENCE_LOW THEN "WEAK"
    ELSE "VERY WEAK"

\* sorted(..., key=..., reverse=True): descending by key, and the sort being
\* stable, sources of equal key stay in the order of Sources
SortedDesc(key) ==
    LET Rank(i) ==
            1 + Cardinality({j \in 1..Len(Sources) :
                    \/ key[Sources[j]] > key[Sources[i]]
                    \/ key[Sources[j]] = key[Sources[i]] /\ j < i})
    IN  [r \in 1..Len(Sources) |-> Sources[CHOOSE i \in 1..Len(Sources) : Rank(i) = r]]

\* the order of factor_details: by abs(x[1]), the absolute score
FactorOrder(scores, weights) ==
    SortedDesc([key \in SourceSet |-> Abs(scores[key])])

FactorDetail(key, scores, weights) ==
    [ source |-> key,
      score |-> scores[key],
      weight |-> WeightOf(weights, key),
      contribution |-> RoundHalfEven(scores[key] * WeightOf(weights, key), 100),
      direction |-> IF scores[key] > 0 THEN "bullish"
                    ELSE IF scores[key] < 0 THEN "bearish" ELSE "neutral" ]

FactorDetails(scores, weights) ==
    [r \in 1..Len(Sources) |-> FactorDetail(FactorOrder(scores, weights)[r], scores, weights)]

\* cg.get("price_usd") or bt.get("last_price")
CurrentPrice(price_data) ==
    IF ~IsNone(price_data.price_usd) /\ Val(price_data.price_usd) # 0
    THEN price_data.price_usd
    ELSE price_data.last_price

FactorsKept == 6
TopFactorsKept == 3

generate_prediction(inputs, weights, t) ==
    IF \E key \in SourceSet : NormalizeRaises(RawScores(inputs)[key])
    THEN [raised |-> TRUE]
    ELSE LET scores == Scores(inputs)
             weighted_score == WeightedScore(scores, weights)
             agreement == Agreement(scores)
             confidence == Confidence(weighted_score, agreement)
             factor_details == FactorDetails(scores, weights)
         IN  [ raised |-> FALSE,
               timestamp |-> t,
               direction |-> Direction(weighted_score),
               confidence |-> confidence,
               strength |-> Strength(confidence),
               weighted_score |-> weighted_score,
               current_price_usd |-> CurrentPrice(inputs.price_data),
               timeframe |-> [num |-> 24, unit |-> "h"],
               signal_scores |-> scores,
               signal_weights |-> weights,
               factors |-> SubSeq(factor_details, 1, FactorsKept),
               top_factors |-> SubSeq(factor_details, 1, TopFactorsKept),
               signals_bullish |-> PositiveSignals(scores),
               signals_bearish |-> NegativeSignals(scores),
               signal_agreement |-> RoundHalfEven(100 * agreement.num, agreement.den) ]

\* The inputs of generate_prediction.  technical 0.5 alone gives a weighted
\* sum of exactly 0.15; with social 0.003 and youtube -0.005 it gives 0.1501.
NoSentiment == [dict |-> "absent", sentiment_score |-> RawNone]
Sentiment(score) == [dict |-> "present", sentiment_score |-> score]

TechnicalScores == {RawNone, RawNumber(-500), RawNumber(300), RawNumber(500)}
OnchainData ==
    { [buy_pressure |-> "neutral", tvl_trend |-> "stable", tvl_change_7d_pct |-> 0],
      [buy_pressure |-> "strong_buy", tvl_trend |-> "growing", tvl_change_7d_pct |-> 6] }
WhaleData ==
    { [flow_direction |-> "neutral", net_flow_sol |-> 0],
      [flow_direction |-> "accumulating", net_flow_sol |-> 6000] }
NewsSentiments ==
    { NoSentiment,
      [dict |-> "no_key", sentiment_score |-> RawNone],
      Sentiment(RawNone),
      Sentiment(RawNumber(1500)),
      Sentiment(RawText) }
SocialSentiments == {Sentiment(RawNumber(0)), Sentiment(RawNumber(3)), Sentiment(RawNumber(-3))}
YoutubeSentiments ==
    {Sentiment(RawNumber(0)), Sentiment(RawNumber(5)), Sentiment(RawNumber(-5)), Sentiment(RawNumber(900))}
FearGreedData == {[current_value |-> RawNumber(50)], [current_value |-> RawNumber(200)]}
PriceData ==
    { [price_usd |-> Some(100), last_price |-> Some(100)],
      [price_usd |-> None, last_price |-> Some(0)] }

PredictInputs ==
    [ technical_score : TechnicalScores,
      onchain_data : OnchainData,
      whale_data : WhaleData,
      news_sentiment : NewsSentiments,
      social_sentiment : SocialSentiments,
      youtube_sentiment : YoutubeSentiments,
      fear_greed_data : FearGreedData,
      price_data : PriceData ]

InitPredict ==
    /\ file = MissingFile
    /\ now = 0
    /\ last = [op |-> "init", pre |-> MissingFile, fetch |-> NoFetch, at |-> 0]
    /\ ever = <<>>
    /\ pc = IdleProcs
    /\ loc = NoLocals
    /\ hist = NoHist
    /\ \E inputs \in PredictInputs :
          ev = [phase |-> "inputs", inputs |-> inputs, weights |-> SIGNAL_WEIGHTS,
                prediction |-> [raised |-> FALSE]]

GeneratePrediction ==
    /\ ev.phase = "inputs"
    /\ ev' = [ev EXCEPT !.phase = "predicted",
                        !.prediction = generate_prediction(ev.inputs, ev.weights, now)]
    /\ UNCHANGED <<file, now, last, ever, pc, loc, hist>>

SpecPredict == InitPredict /\ [][GeneratePrediction]_vars

-----------------------------------------------------------------------------
(* Start-up with a weight table: config.py as it is, and config.py edited so
   that technical weighs 0.20 and the table sums to 0.9 *)

WeightTables ==
    { SIGNAL_WEIGHTS, [SIGNAL_WEIGHTS EXCEPT !.technical = 20] }

WeightSum(weights) ==
    SumOver(weights, DOMAIN weights)

InitConfig ==
    /\ file = MissingFile
    /\ now = 0
    /\ last = [op |-> "init", pre |-> MissingFile, fetch |-> NoFetch, at |-> 0]
    /\ ever = <<>>
    /\ pc = IdleProcs
    /\ loc = NoLocals
    /\ hist = NoHist
    /\ \E inputs \in PredictInputs, weights \in WeightTables :
          ev = [phase |-> "startup", inputs |-> inputs, weights |-> weights,
                prediction |-> [raised |-> FALSE]]

\* the import of config.py: SIGNAL_WEIGHTS is bound to the literal, and
\* nothing looks at its sum
ImportConfig ==
    /\ ev.phase = "startup"
    /\ ev' = [ev EXCEPT !.phase = "inputs"]
    /\ UNCHANGED <<file, now, last, ever, pc, loc, hist>>

NextConfig ==
    \/ ImportConfig
    \/ GeneratePrediction

SpecConfig == InitConfig /\ [][NextConfig]_vars

-----------------------------------------------------------------------------
(* A run of the pipeline (python -m src.main, the scheduler, the dashboard's
   trigger) next to the store's operations *)

\* the parameters of generate_prediction, none of which has a default
Parameters ==
    {"technical_result", "ai_analysis", "fear_greed_data", "onchain_data",
     "whale_data", "price_data"}

\* the keyword arguments of the call in run_pipeline
PassedArguments ==
    {"technical_result", "ai_analysis", "fear_greed_data", "onchain_data", "price_data"}

\* a call that leaves a parameter unbound raises TypeError
CallRaises(parameters, arguments) == parameters \ arguments # {}

\* what phases 1 to 3 of a run hand to phase 4: the run collects no whale
\* transfers
PipelineInputs ==
    [ technical_score : {RawNumber(300), RawNumber(500)},
      onchain_data : {[buy_pressure |-> "strong_buy", tvl_trend |-> "growing", tvl_change_7d_pct |-> 6]},
      whale_data : {[flow_direction |-> "neutral", net_flow_sol |-> 0]},
      news_sentiment : {NoSentiment},
      social_sentiment : {Sentiment(RawNumber(3))},
      youtube_sentiment : {Sentiment(RawNumber(900))},
      fear_greed_data : {[current_value |-> RawNumber(50)]},
      price_data : {[price_usd |-> Some(100), last_price |-> Some(100)]} ]

\* run_pipeline from phase 4 on: generate_prediction, then log_prediction,
\* then check_prediction_results; an exception ends the run where it is raised
RunPipeline(inputs, fetch) ==
    LET prediction == generate_prediction(inputs, SIGNAL_WEIGHTS, now)
        raised == IF CallRaises(Parameters, PassedArguments) THEN TRUE
                  ELSE IF prediction.raised THEN TRUE
                  ELSE LoadRaises(file)
        logged == log_prediction(file, prediction, now)
    IN  /\ raised \/ Len(load_predictions(file)) < MaxRecords
        /\ file' = IF raised THEN file ELSE check_prediction_results(logged, fetch, now)
        /\ last' = [op |-> IF raised THEN "pipeline_raised" ELSE "pipeline",
                    pre |-> file, fetch |-> IF raised THEN NoFetch ELSE fetch, at |-> now]
        /\ ever' = Ever(file', ever)
        /\ UNCHANGED <<now, ev, pc, loc, hist>>

NextPipeline ==
    \/ NextStore
    \/ \E inputs \in PipelineInputs, fetch \in FetchOutcomes : RunPipeline(inputs, fetch)

SpecPipeline == Init /\ [][NextPipeline]_vars

-----------------------------------------------------------------------------
(* Technical analysis.  A candle series enters by its length n and by what the
   indicator library computes from it: the RSI value in hundredths (or NaN) and,
   for the other indicators, the branch that the computed lines select.
   Scores are in thousandths. *)

TA_RSI_PERIOD == 14
TA_MACD_SLOW == 26
TA_MACD_SIGNAL == 9
TA_BB_PERIOD == 20
TA_EMA_MEDIUM == 21
TA_EMA_VERY_LONG == 200
VolumePeriod == 10

\* series.iloc[-k] on a series of n values raises IndexError when k > n
IndexRaises(n, k) == k > n

Neutral == [raised |-> FALSE, signal |-> "neutral", score |-> 0]

\* RsiScore without the two bands next to the extremes
RsiScore_ExtremesOnly(rsi_value) ==
    IF rsi_value >= 7000 THEN RoundHalfEven(-3000 - (rsi_value - 7000), 6)
    ELSE IF rsi_value <= 3000 THEN RoundHalfEven(3000 + (3000 - rsi_value), 6)
    ELSE 0

\* the score of an RSI value, round(score, 3)
RsiScore(rsi_value) ==
    IF rsi_value >= 7000 THEN RoundHalfEven(-3000 - (rsi_value - 7000), 6)
    ELSE IF rsi_value <= 3000 THEN RoundHalfEven(3000 + (3000 - rsi_value), 6)
    ELSE IF rsi_value >= 6000 THEN 200
    ELSE IF rsi_value <= 4000 THEN -200
    ELSE 0

RsiSignal(rsi_value) ==
    IF rsi_value >= 7000 THEN "overbought"
    ELSE IF rsi_value <= 3000 THEN "oversold"
    ELSE IF rsi_value >= 6000 THEN "bullish"
    ELSE IF rsi_value <= 4000 THEN "bearish"
    ELSE "neutral"

\* calculate_rsi without its length guard
calculate_rsi_NoGuard(n, rsi) ==
    IF IndexRaises(n, 1) THEN [raised |-> TRUE, signal |-> "none", score |-> 0]
    ELSE IF rsi.nan THEN Neutral
    ELSE [raised |-> FALSE, signal |-> RsiSignal(rsi.value), score |-> RsiScore(rsi.value)]

\* the dict returned for a short series has no "score" key; where the result
\* is used, rsi.get("score", 0) reads 0
calculate_rsi(n, rsi) ==
    IF n = 0 \/ n < TA_RSI_PERIOD + 1 THEN Neutral
    ELSE calculate_rsi_NoGuard(n, rsi)

\* the score each branch of an indicator assigns
BranchScore(signal) ==
    MapGet([ bullish_crossover |-> 800, bearish_crossover |-> -800,
             bullish |-> 400, bearish |-> -400,
             overbought |-> -500, oversold |-> 500, squeeze |-> 0,
             upper_zone |-> -200, lower_zone |-> 200, middle |-> 0,
             high_volume_rally |-> 600, high_volume_selloff |-> -600,
             above_avg_buying |-> 300, above_avg_selling |-> -300,
             low_volume |-> 0, normal_up |-> 100, normal_down |-> -100 ], signal)

\* an indicator that reads the last k values of the series behind a guard on
\* its length
Guarded(n, minimum, k, signal) ==
    IF n = 0 \/ n < minimum THEN Neutral
    ELSE IF IndexRaises(n, k) THEN [raised |-> TRUE, signal |-> "none", score |-> 0]
    ELSE [raised |-> FALSE, signal |-> signal, score |-> BranchScore(signal)]

calculate_macd(n, signal) ==
    Guarded(n, TA_MACD_SLOW + TA_MACD_SIGNAL, 2, signal)

calculate_bollinger_bands(n, signal) ==
    Guarded(n, TA_BB_PERIOD, 1, signal)

calculate_volume_analysis(n, signal) ==
    Guarded(n, VolumePeriod, 2, signal)

\* one pair of averages: skipped when the series is shorter than the slow
\* period + 2
EmaPair(n, slow_period, cross_score, signal) ==
    IF n < slow_period + 2 THEN [counted |-> 0, score |-> 0]
    ELSE [counted |-> 1,
          score |-> MapGet([golden_cross |-> cross_score, death_cross |-> -cross_score,
                            bullish |-> 300, bearish |-> -300], signal)]

calculate_ema_crossovers(n, short_signal, long_signal) ==
    LET short == EmaPair(n, TA_EMA_MEDIUM, 500, short_signal)
        long == EmaPair(n, TA_EMA_VERY_LONG, 700, long_signal)
        count == short.counted + long.counted
    IN  [ raised |-> FALSE, count |-> count,
          combined_score |-> RoundHalfEven(short.score + long.score, Max(count, 1)) ]

run_technical_analysis(series) ==
    LET n == series.n
        rsi == calculate_rsi(n, series.rsi)
        macd == calculate_macd(n, series.macd)
        bollinger == calculate_bollinger_bands(n, series.bollinger)
        ema == calculate_ema_crossovers(n, series.ema_short, series.ema_long)
        volume == calculate_volume_analysis(n, series.volume)
        total == rsi.score * 25 + macd.score * 25 + bollinger.score * 15
                 + ema.combined_score * 20 + volume.score * 15
        technical_score == RoundHalfEven(Max(-100000, Min(100000, total)), 100)
    IN  IF n = 0
        THEN [ raised |-> FALSE, technical_score |-> 0, signal |-> "neutral",
               rsi |-> Neutral, macd |-> Neutral, bollinger |-> Neutral,
               ema_score |-> 0, volume |-> Neutral ]
        ELSE [ raised |-> rsi.raised \/ macd.raised \/ bollinger.raised \/ volume.raised,
               technical_score |-> technical_score,
               signal |-> IF technical_score > 300 THEN "bullish"
                          ELSE IF technical_score < -300 THEN "bearish" ELSE "neutral",
               rsi |-> rsi, macd |-> macd, bollinger |-> bollinger,
               ema_score |-> ema.combined_score, volume |-> volume ]

\* series lengths on both sides of every guard
SeriesLengths == {0, 1, 9, 10, 14, 15, 19, 20, 22, 23, 34, 35, 201, 202}

SeriesInputs ==
    [ n : SeriesLengths,
      rsi : {[nan |-> TRUE, value |-> 0], [nan |-> FALSE, value |-> 2000],
             [nan |-> FALSE, value |-> 6500]},
      macd : {"bullish_crossover", "bearish", "neutral"},
      bollinger : {"oversold", "upper_zone", "middle"},
      ema_short : {"golden_cross", "bearish"},
      ema_long : {"death_cross", "bullish"},
      volume : {"high_volume_rally", "above_avg_selling", "normal_up"} ]

InitTechnical ==
    /\ file = MissingFile
    /\ now = 0
    /\ last = [op |-> "init", pre |-> MissingFile, fetch |-> NoFetch, at |-> 0]
    /\ ever = <<>>
    /\ pc = IdleProcs
    /\ loc = NoLocals
    /\ hist = NoHist
    /\ \E series \in SeriesInputs :
          ev = [phase |-> "candles", series |-> series, result |-> Neutral]

RunTechnicalAnalysis ==
    /\ ev.phase = "candles"
    /\ ev' = [ev EXCEPT !.phase = "analysed", !.result = run_technical_analysis(ev.series)]
    /\ UNCHANGED <<file, now, last, ever, pc, loc, hist>>

SpecTechnical == InitTechnical /\ [][RunTechnicalAnalysis]_vars

-----------------------------------------------------------------------------
(* The RSI score on its own: a series long enough, and an RSI value between 0
   and 100 in steps of a quarter, with the values next to each threshold *)

RsiStep == 25

RsiValues ==
    {v \in 0..10000 : v % RsiStep = 0}
        \cup {2999, 3001, 3999, 4001, 5999, 6001, 6999, 7001, 7555}

InitRsi ==
    /\ file = MissingFile
    /\ now = 0
    /\ last = [op |-> "init", pre |-> MissingFile, fetch |-> NoFetch, at |-> 0]
    /\ ever = <<>>
    /\ pc = IdleProcs
    /\ loc = NoLocals
    /\ hist = NoHist
    /\ \E value \in RsiValues :
          ev = [phase |-> "series", n |-> TA_RSI_PERIOD + 1,
                rsi |-> [nan |-> FALSE, value |-> value], result |-> Neutral]

CalculateRsi ==
    /\ ev.phase = "series"
    /\ ev' = [ev EXCEPT !.phase = "scored", !.result = calculate_rsi(ev.n, ev.rsi)]
    /\ UNCHANGED <<file, now, last, ever, pc, loc, hist>>

SpecRsi == InitRsi /\ [][CalculateRsi]_vars

-----------------------------------------------------------------------------
(* get_accuracy_stats *)

\* round((c / n) * 100, 1), in tenths of a percent
Percent(c, n) == RoundHalfEven(c * 1000, n)

calc_acc(preds) ==
    IF preds = <<>> THEN None ELSE Some(Percent(Len(Correct(preds)), Len(preds)))

InDirection(checked, direction) ==
    SelectSeq(checked, LAMBDA p : p.direction = direction)

direction_stats(checked) ==
    [ direction \in {d \in Directions : InDirection(checked, d) # <<>>} |->
        LET dir_preds == InDirection(checked, direction)
        IN  [ total |-> Len(dir_preds),
              correct |-> Len(Correct(dir_preds)),
              accuracy |-> Percent(Len(Correct(dir_preds)), Len(dir_preds)) ] ]

\* a window that selects by the time of the evaluation
WithinDays_ByCheckedAt(checked, t, days) ==
    SelectSeq(checked, LAMBDA p : t - Val(p.checked_at) < days * 24)

\* last_7d, last_30d: now - _parse_time(p["timestamp"]) < timedelta(days)
WithinDays(checked, t, days) ==
    SelectSeq(checked, LAMBDA p : t - p.timestamp < days * 24)

\* the keys met in the signal_scores of the checked records
SignalsOf(checked) ==
    UNION {DOMAIN checked[i].signal_scores : i \in 1..Len(checked)}

\* agreement of any non-zero score, whatever the direction
signal_agreed_IgnoresDirection(score, direction) == score # 0

signal_agreed(score, direction) ==
    \/ score > 0 /\ direction = "LONG"
    \/ score < 0 /\ direction = "SHORT"

Agreed(checked, signal) ==
    SelectSeq(checked, LAMBDA p :
        /\ signal \in DOMAIN p.signal_scores
        /\ signal_agreed(p.signal_scores[signal], p.direction))

signal_accuracy(checked) ==
    [ signal \in SignalsOf(checked) |->
        [ correct |-> Len(Correct(Agreed(checked, signal))),
          total |-> Len(Agreed(checked, signal)) ] ]

MinSampleSize == 3

best_signals(checked) ==
    [ k \in {s \in SignalsOf(checked) : signal_accuracy(checked)[s].total >= MinSampleSize} |->
        Percent(signal_accuracy(checked)[k].correct, Max(signal_accuracy(checked)[k].total, 1)) ]

get_accuracy_stats(f, t) ==
    LET predictions == load_predictions(f)
        checked == Checked(predictions)
    IN  IF checked = <<>>
        THEN [ total_predictions |-> Len(predictions),
               checked |-> 0,
               message |-> "No results checked yet" ]
        ELSE [ total_predictions |-> Len(predictions),
               checked |-> Len(checked),
               correct |-> Len(Correct(checked)),
               overall_accuracy |-> Percent(Len(Correct(checked)), Len(checked)),
               accuracy_7d |-> calc_acc(WithinDays(checked, t, 7)),
               accuracy_30d |-> calc_acc(WithinDays(checked, t, 30)),
               direction_stats |-> direction_stats(checked),
               signal_accuracy |-> best_signals(checked) ]

\* The log at the time of a statistics request: the store after a schedule of
\* log_prediction calls, evaluation passes with a price, and waits
StatPredictions ==
    << [direction |-> "LONG", confidence |-> 700, signal_scores |-> SignalScores(500, -200, 0),
        current_price_usd |-> Some(100), timeframe |-> [num |-> 24, unit |-> "h"]],
       [direction |-> "SHORT", confidence |-> 600, signal_scores |-> SignalScores(-500, -200, 0),
        current_price_usd |-> Some(100), timeframe |-> [num |-> 1, unit |-> "d"]],
       [direction |-> "NEUTRAL", confidence |-> 300, signal_scores |-> SignalScores(100, -100, 0),
        current_price_usd |-> Some(100), timeframe |-> [num |-> 24, unit |-> "h"]] >>

\* an event: op, the hours that pass before it, and the payload (its place in
\* StatPredictions) or the fetched price
StatEvents ==
    {[op |-> "log", dt |-> 0, n |-> n] : n \in 1..Len(StatPredictions)}
    \cup {[op |-> "check", dt |-> 24, n |-> price] : price \in {99, 101}}
    \cup {[op |-> "wait", dt |-> dt, n |-> 0] : dt \in {200, 800}}

ScheduleLengths == 0..5

Schedules == UNION {[1..n -> StatEvents] : n \in ScheduleLengths}

RECURSIVE RunSchedule(_)
RunSchedule(schedule) ==
    IF schedule = <<>> THEN [file |-> MissingFile, now |-> 0]
    ELSE LET before == RunSchedule(SubSeq(schedule, 1, Len(schedule) - 1))
             e == schedule[Len(schedule)]
             t == before.now + e.dt
         IN  [ file |-> IF e.op = "log"
                        THEN log_prediction(before.file, StatPredictions[e.n], t)
                        ELSE IF e.op = "check"
                        THEN check_prediction_results(before.file,
                                 [status |-> "ok", price |-> e.n], t)
                        ELSE before.file,
               now |-> t ]

InitStats ==
    /\ \E schedule \in Schedules :
          /\ file = RunSchedule(schedule).file
          /\ now = RunSchedule(schedule).now
    /\ last = [op |-> "init", pre |-> MissingFile, fetch |-> NoFetch, at |-> 0]
    /\ ever = <<>>
    /\ ev = NoEval
    /\ pc = IdleProcs
    /\ loc = NoLocals
    /\ hist = NoHist

SpecStats == InitStats /\ [][GetAccuracyStats]_vars

-----------------------------------------------------------------------------
(* generate_prediction invoked twice with the same arguments, with the clock
   free to advance before and between the invocations *)

PureInputs ==
    { inputs \in PredictInputs :
        /\ inputs.social_sentiment = Sentiment(RawNumber(0))
        /\ inputs.youtube_sentiment = Sentiment(RawNumber(0)) }

InitPure ==
    /\ file = MissingFile
    /\ now = 0
    /\ last = [op |-> "init", pre |-> MissingFile, fetch |-> NoFetch, at |-> 0]
    /\ ever = <<>>
    /\ pc = IdleProcs
    /\ loc = NoLocals
    /\ hist = NoHist
    /\ \E inputs \in PureInputs :
          ev = [phase |-> "inputs", inputs |-> inputs, weights |-> SIGNAL_WEIGHTS,
                first |-> [raised |-> FALSE], second |-> [raised |-> FALSE]]

InvokeGeneratePrediction ==
    /\ ev.phase \in {"inputs", "once"}
    /\ ev' = IF ev.phase = "inputs"
             THEN [ev EXCEPT !.phase = "once",
                             !.first = generate_prediction(ev.inputs, ev.weights, now)]
             ELSE [ev EXCEPT !.phase = "twice",
                             !.second = generate_prediction(ev.inputs, ev.weights, now)]
    /\ UNCHANGED <<file, now, last, ever, pc, loc, hist>>

SpecPure == InitPure /\ [][InvokeGeneratePrediction \/ Tick]_vars

-----------------------------------------------------------------------------
(* The store with a payload whose timeframe is "1w" and with a price source
   that answers 200 without a price *)

PassPredictions ==
    Predictions \cup
    { [direction |-> "LONG", confidence |-> 700, signal_scores |-> SignalScores(500, -200, 0),
       current_price_usd |-> Some(100), timeframe |-> [num |-> 1, unit |-> "w"]] }

\* status 200 with a JSON body that has no "price" key: data.get("price", 0)
\* gives current_price 0.0
PassFetchOutcomes ==
    FetchOutcomes \cup {[status |-> "ok", price |-> 0]}

NextPass ==
    \/ \E prediction \in PassPredictions : LogPrediction(prediction)
    \/ \E fetch \in PassFetchOutcomes : CheckPredictionResults(fetch)
    \/ Tick

SpecPass == Init /\ [][NextPass]_vars

-----------------------------------------------------------------------------
(* The dashboard: POST /api/trigger and the threads of _run_pipeline_async.
   pc[k] is the place of the k-th request and of the thread it starts; ev is
   _latest_result with the holder of _run_lock and the number of requests. *)

MaxTriggers == 3

Threads == 1..MaxTriggers

InitDash ==
    /\ file = MissingFile
    /\ now = 0
    /\ last = [op |-> "init", pre |-> MissingFile, fetch |-> NoFetch, at |-> 0]
    /\ ever = <<>>
    /\ loc = NoLocals
    /\ hist = NoHist
    /\ ev = [phase |-> "dashboard", status |-> "idle", lock |-> {}, triggers |-> 0]
    /\ pc = [t \in Threads |-> "unborn"]

\* trigger_analysis: the status is read without the lock; the thread is
\* started and runs later
TriggerAnalysis ==
    /\ ev.triggers < MaxTriggers
    /\ ev' = [ev EXCEPT !.triggers = @ + 1]
    /\ pc' = [pc EXCEPT ![ev.triggers + 1] =
                 IF ev.status = "running" THEN "already_running" ELSE "start"]
    /\ UNCHANGED <<file, now, last, ever, loc, hist>>

\* with _run_lock:
AcquireRunLock(t) ==
    /\ pc[t] = "start"
    /\ ev.lock = {}
    /\ ev' = [ev EXCEPT !.lock = {t}]
    /\ pc' = [pc EXCEPT ![t] = "locked"]
    /\ UNCHANGED <<file, now, last, ever, loc, hist>>

\* a guard that lets every thread through
AlreadyRunning_Never(status) == FALSE

\* if _latest_result["status"] == "running": return
AlreadyRunning(status) == status = "running"

CheckRunning(t) ==
    /\ pc[t] = "locked"
    /\ ev' = IF AlreadyRunning(ev.status) THEN [ev EXCEPT !.lock = {}] ELSE ev
    /\ pc' = [pc EXCEPT ![t] = IF AlreadyRunning(ev.status) THEN "returned" ELSE "set"]
    /\ UNCHANGED <<file, now, last, ever, loc, hist>>

\* _latest_result["status"] = "running", and the end of the with block
SetRunning(t) ==
    /\ pc[t] = "set"
    /\ ev' = [ev EXCEPT !.status = "running", !.lock = {}]
    /\ pc' = [pc EXCEPT ![t] = "run"]
    /\ UNCHANGED <<file, now, last, ever, loc, hist>>

\* a thread that leaves the status as it is when the run has ended
StatusAfterRun_Unchanged(raised) == "running"

\* the try block: "done" after run_pipeline returned, "error" in the handler
\* of except Exception
StatusAfterRun(raised) == IF raised THEN "error" ELSE "done"

\* run_pipeline ends: its call of generate_prediction raises TypeError before
\* anything is logged
FinishRun(t) ==
    /\ pc[t] = "run"
    /\ ev' = [ev EXCEPT !.status = StatusAfterRun(CallRaises(Parameters, PassedArguments))]
    /\ pc' = [pc EXCEPT ![t] = "finished"]
    /\ UNCHANGED <<file, now, last, ever, loc, hist>>

NextDash ==
    \/ TriggerAnalysis
    \/ \E t \in Threads : AcquireRunLock(t)
    \/ \E t \in Threads : CheckRunning(t)
    \/ \E t \in Threads : SetRunning(t)
    \/ \E t \in Threads : FinishRun(t)

SpecDash == InitDash /\ [][NextDash]_vars

\* a run that has started returns or fails
SpecDashFair ==
    /\ InitDash
    /\ [][NextDash]_vars
    /\ WF_vars(\E t \in Threads : FinishRun(t))

-----------------------------------------------------------------------------
(* C11 *)

Raised == {"log_raised", "check_raised", "stats_raised"}

-----------------------------------------------------------------------------
(* C12 *)

-----------------------------------------------------------------------------
(* C13 *)

Predicted == ev.phase = "predicted" /\ ~ev.prediction.raised

\* the weighted sum of the scores of the inputs, in units of 1/100000
InputSum == WeightedSum(Scores(ev.inputs), ev.weights)

\* C13: the direction is LONG exactly when the weighted score is above 0.15,
\* SHORT exactly when it is below -0.15, NEUTRAL otherwise; 0.1501 is LONG
\* and -0.1501 is SHORT
C13_DirectionDeadband ==
    Predicted =>
        /\ ev.prediction.direction = "LONG" <=> InputSum > 100 * DirectionThreshold
        /\ ev.prediction.direction = "SHORT" <=> InputSum < -100 * DirectionThreshold
        /\ ev.prediction.direction = "NEUTRAL" <=>
              /\ InputSum >= -100 * DirectionThreshold
              /\ InputSum <= 100 * DirectionThreshold

-----------------------------------------------------------------------------
(* C14 *)

\* C14: a prediction is only ever generated from a weight table whose
\* weights sum to 1.0; a table with another sum is rejected at start-up
C14_WeightTableValidated ==
    ev.phase = "predicted" => WeightSum(ev.weights) = 100

-----------------------------------------------------------------------------
(* C15 *)

\* C15: each of the seven sources has an entry in the weight table, the
\* weights sum to 1.0, and the weighted score is the sum over the seven
\* sources of score times that entry, a source without data entering with
\* score 0
C15_SevenConfiguredWeights ==
    Predicted =>
        /\ \A key \in SourceSet : key \in DOMAIN ev.prediction.signal_weights
        /\ WeightSum(ev.prediction.signal_weights) = 100
        /\ InputSum =
              SumOver([key \in SourceSet |->
                          ev.prediction.signal_scores[key] * WeightOf(ev.weights, key)],
                      SourceSet)

-----------------------------------------------------------------------------
(* C16 *)

Bullish == Cardinality({key \in SourceSet : ev.prediction.signal_scores[key] > 50})
Bearish == Cardinality({key \in SourceSet : ev.prediction.signal_scores[key] < -50})

\* agreement as the claim defines it, as a fraction
ClaimedAgreement ==
    IF Bullish + Bearish = 0 THEN [num |-> 1, den |-> 2]
    ELSE [num |-> Max(Bullish, Bearish), den |-> Bullish + Bearish]

\* min(100, |weighted score| * 100 * (0.7 + 0.3 * agreement)) in percent, as
\* the fraction ClaimedNum / ClaimedDen
ClaimedDen == 100 * ClaimedAgreement.den
ClaimedNum ==
    Min(100 * ClaimedDen,
        Abs(ev.prediction.weighted_score)
            * (7 * ClaimedAgreement.den + 3 * ClaimedAgreement.num))

AgreementInRange ==
    /\ 2 * ClaimedAgreement.num >= ClaimedAgreement.den
    /\ ClaimedAgreement.num <= ClaimedAgreement.den
    /\ ev.prediction.signals_bullish = Bullish
    /\ ev.prediction.signals_bearish = Bearish

\* C16 as stated: the confidence of the prediction is exactly
\* min(100, |weighted score| * 100 * (0.7 + 0.3 * agreement))
C16_ConfidenceFormula ==
    Predicted =>
        /\ ev.prediction.confidence * ClaimedDen = 10 * ClaimedNum
        /\ AgreementInRange

\* C16: the confidence of the prediction is
\* min(100, |weighted score| * 100 * (0.7 + 0.3 * agreement)) rounded to one
\* decimal (it differs from that value by at most 0.05), with agreement =
\* max(bullish, bearish) / (bullish + bearish) over the sources with
\* |score| > 0.05 and 0.5 when there is none; it lies in 0..100 and
\* agreement in 0.5..1
C16_ConfidenceFormulaRounded ==
    Predicted =>
        /\ 2 * Abs(ev.prediction.confidence * ClaimedDen - 10 * ClaimedNum) <= ClaimedDen
        /\ ev.prediction.confidence >= 0
        /\ ev.prediction.confidence <= 1000
        /\ AgreementInRange

C16_Witness ==
    /\ Predicted
    /\ Bullish = 2
    /\ Bearish = 1
    /\ ev.prediction.confidence > 0
    /\ ev.prediction.confidence * ClaimedDen # 10 * ClaimedNum

-----------------------------------------------------------------------------
(* C17 *)

SourcesOf(factors) == [r \in 1..Len(factors) |-> factors[r].source]

\* the sources by |score * weight| descending, equal ones in the order of
\* Sources
ContributionOrder ==
    SortedDesc([key \in SourceSet |->
                   Abs(ev.prediction.signal_scores[key] * WeightOf(ev.weights, key))])

\* C17: factors lists the sources by |score * weight| descending, sources of
\* equal contribution in declaration order, and top_factors is the first
\* three of that ranking
C17_FactorRanking ==
    Predicted =>
        /\ SourcesOf(ev.prediction.factors) =
              SubSeq(ContributionOrder, 1, Len(ev.prediction.factors))
        /\ SourcesOf(ev.prediction.top_factors) = SubSeq(ContributionOrder, 1, 3)

-----------------------------------------------------------------------------
(* C18 *)

\* C18: every score in signal_scores lies in [-1.0, 1.0], whatever the raw
\* inputs were
C18_ScoresClamped ==
    Predicted =>
        \A key \in SourceSet :
            /\ ev.prediction.signal_scores[key] >= -1000
            /\ ev.prediction.signal_scores[key] <= 1000

\* an upstream news score of 1.5 and a fear and greed value of 200
C18_Witness ==
    /\ Predicted
    /\ ev.inputs.news_sentiment.sentiment_score = RawNumber(1500)
    /\ ev.inputs.fear_greed_data.current_value = RawNumber(200)
    /\ ev.prediction.signal_scores["news"] = 1000
    /\ ev.prediction.signal_scores["fear_greed"] = -1000

-----------------------------------------------------------------------------
(* C19 *)

\* no sub-dict, no sentiment_score key, a null score, or a score that is not
\* a number
MissingOrUnparsable(sub) ==
    \/ sub.dict \in {"absent", "no_key"}
    \/ sub.sentiment_score.kind \in {"none", "text"}

\* C19: a news score that is missing or not a number counts as 0, and
\* generate_prediction returns a prediction
C19_UnparsableScoreIsZero ==
    ev.phase = "predicted" /\ MissingOrUnparsable(ev.inputs.news_sentiment) =>
        /\ ~ev.prediction.raised
        /\ ev.prediction.signal_scores["news"] = 0

-----------------------------------------------------------------------------
(* C20 *)

\* C20: a run of the pipeline is not aborted by the source it has no data
\* for: it generates a prediction, logs it (the store has one record more
\* than before the run) and then runs the evaluation pass
C20_RunLogsPrediction ==
    last.op \in {"pipeline", "pipeline_raised"} =>
        /\ last.op = "pipeline"
        /\ file.state = "json"
        /\ Len(Stored) = Len(Before) + 1

-----------------------------------------------------------------------------
(* C21 *)

Analysed == ev.phase = "analysed"

\* C21: on a series shorter than an indicator's minimum length the indicator
\* is neutral and adds 0 to the technical score, no indicator raises, and on
\* an empty series the technical score is 0 with signal "neutral"
C21_ShortSeriesNeutral ==
    Analysed =>
        LET n == ev.series.n
            r == ev.result
        IN  /\ ~r.raised
            /\ n < TA_RSI_PERIOD + 1 => r.rsi.score = 0 /\ r.rsi.signal = "neutral"
            /\ n < TA_MACD_SLOW + TA_MACD_SIGNAL =>
                  r.macd.score = 0 /\ r.macd.signal = "neutral"
            /\ n < TA_BB_PERIOD => r.bollinger.score = 0 /\ r.bollinger.signal = "neutral"
            /\ n < TA_EMA_MEDIUM + 2 => r.ema_score = 0
            /\ n < VolumePeriod => r.volume.score = 0 /\ r.volume.signal = "neutral"
            /\ n < VolumePeriod => r.technical_score = 0 /\ r.signal = "neutral"
            /\ n = 0 => r.technical_score = 0 /\ r.signal = "neutral"

\* fourteen candles: one short of the RSI minimum, enough for the volume
C21_Witness ==
    /\ Analysed
    /\ ev.series.n = TA_RSI_PERIOD
    /\ ~ev.series.rsi.nan
    /\ ev.result.rsi.score = 0
    /\ ev.result.volume.score # 0
    /\ ev.result.technical_score # 0

-----------------------------------------------------------------------------
(* C22 *)

\* six times the score the claim's formula gives an RSI value v (hundredths),
\* in thousandths: 6 * (-0.5 - ((v - 70) / 30) * 0.5) and
\* 6 * (0.5 + ((30 - v) / 30) * 0.5), and the three constant bands
ClaimedRsiScoreTimes6(v) ==
    IF v >= 7000 THEN -3000 - (v - 7000)
    ELSE IF v <= 3000 THEN 3000 + (3000 - v)
    ELSE IF v >= 6000 THEN 6 * 200
    ELSE IF v <= 4000 THEN 6 * (-200)
    ELSE 0

RsiBoundaries ==
    /\ ev.rsi.value = 7000 => ev.result.score = -500
    /\ ev.rsi.value = 10000 => ev.result.score = -1000
    /\ ev.rsi.value = 3000 => ev.result.score = 500
    /\ ev.rsi.value = 0 => ev.result.score = 1000
    /\ ev.result.score >= -1000
    /\ ev.result.score <= 1000

\* C22 as stated: the score is exactly the value of the claim's formula
C22_RsiScoreMapping ==
    ev.phase = "scored" =>
        /\ 6 * ev.result.score = ClaimedRsiScoreTimes6(ev.rsi.value)
        /\ RsiBoundaries

\* C22: the score is the value of the claim's formula rounded to three
\* decimals (at most 0.0005 away from it): 70 gives -0.5, 100 gives -1.0,
\* 30 gives +0.5, 0 gives +1.0, [60, 70) gives +0.2, (30, 40] gives -0.2,
\* every other value 0, and the score is in [-1, 1]
C22_RsiScoreMappingRounded ==
    ev.phase = "scored" =>
        /\ Abs(6 * ev.result.score - ClaimedRsiScoreTimes6(ev.rsi.value)) <= 3
        /\ RsiBoundaries

C22_Witness ==
    /\ ev.phase = "scored"
    /\ ev.rsi.value = 7555
    /\ ev.result.score = -592

-----------------------------------------------------------------------------
(* C23 *)

\* the checked records before the request in which the source's score sign
\* agreed with the predicted direction
AgreeingChecked(signal) ==
    { i \in 1..Len(Before) :
        /\ IsChecked(Before[i])
        /\ \/ Before[i].signal_scores[signal] > 0 /\ Before[i].direction = "LONG"
           \/ Before[i].signal_scores[signal] < 0 /\ Before[i].direction = "SHORT" }

AgreeingCorrect(signal) ==
    {i \in AgreeingChecked(signal) : Val(Before[i].was_correct)}

StatSources == {"technical", "news", "fear_greed"}

\* C23: for each source, total counts the checked records in which the sign of
\* the source's score agreed with the predicted direction and correct counts
\* those of them that were correct; a figure is reported exactly for the
\* sources with total >= 3, and it is correct / total as a percentage with one
\* decimal; no NEUTRAL record and no record with score 0 is counted
C23_SignalAttribution ==
    (last.op = "stats" /\ Checked(Before) # <<>>) =>
        LET stats == get_accuracy_stats(last.pre, last.at)
            counts == signal_accuracy(Checked(Before))
        IN  \A signal \in StatSources :
               /\ counts[signal].total = Cardinality(AgreeingChecked(signal))
               /\ counts[signal].correct = Cardinality(AgreeingCorrect(signal))
               /\ signal \in DOMAIN stats.signal_accuracy
                     <=> Cardinality(AgreeingChecked(signal)) >= 3
               /\ signal \in DOMAIN stats.signal_accuracy =>
                     2 * Abs(stats.signal_accuracy[signal] * Cardinality(AgreeingChecked(signal))
                             - 1000 * Cardinality(AgreeingCorrect(signal)))
                        <= Cardinality(AgreeingChecked(signal))
               /\ \A i \in AgreeingChecked(signal) :
                     Before[i].direction # "NEUTRAL" /\ Before[i].signal_scores[signal] # 0

\* a request on a log where technical agreed three times and is reported, news
\* agreed once and is not, and a checked NEUTRAL record has non-zero scores
C23_Witness ==
    /\ last.op = "stats"
    /\ Cardinality(AgreeingChecked("technical")) = 3
    /\ Cardinality(AgreeingChecked("news")) = 1
    /\ DOMAIN get_accuracy_stats(last.pre, last.at).signal_accuracy = {"technical"}
    /\ \E i \in 1..Len(Before) :
          /\ IsChecked(Before[i])
          /\ Before[i].direction = "NEUTRAL"
          /\ Before[i].signal_scores["technical"] # 0

-----------------------------------------------------------------------------
(* C26 *)

\* the log before the request without its pending records
CheckedOnly == [last.pre EXCEPT !.recs = Checked(@)]

\* the checked records created less than the given number of days before the
\* request
CreatedWithin(days) ==
    { i \in 1..Len(Before) :
        IsChecked(Before[i]) /\ last.at - Before[i].timestamp < days * 24 }

WindowAccuracy(figure, days) ==
    LET n == Cardinality(CreatedWithin(days))
        c == Cardinality({i \in CreatedWithin(days) : Val(Before[i].was_correct)})
    IN  IF n = 0 THEN IsNone(figure)
        ELSE ~IsNone(figure) /\ 2 * Abs(Val(figure) * n - 1000 * c) <= n

\* C26: get_accuracy_stats leaves the store file as it is; total_predictions is
\* the length of the log, and every other figure is the one computed on the
\* checked records alone; accuracy_7d and accuracy_30d are the accuracy of the
\* checked records whose creation timestamp is less than 7 and 30 days old
C26_StatsReadOnlyFold ==
    last.op = "stats" =>
        LET stats == get_accuracy_stats(last.pre, last.at)
            folded == get_accuracy_stats(CheckedOnly, last.at)
        IN  /\ file = last.pre
            /\ stats.total_predictions = Len(Before)
            /\ stats.checked = Len(Checked(Before))
            /\ Checked(Before) # <<>> =>
                  /\ stats = [folded EXCEPT !.total_predictions = Len(Before)]
                  /\ WindowAccuracy(stats.accuracy_7d, 7)
                  /\ WindowAccuracy(stats.accuracy_30d, 30)

\* a request on a log with a pending record and a record created more than
\* seven days before the request and checked less than seven days before it
C26_Witness ==
    /\ last.op = "stats"
    /\ \E i \in 1..Len(Before) : ~IsChecked(Before[i])
    /\ \E i \in 1..Len(Before) :
          /\ IsChecked(Before[i])
          /\ last.at - Before[i].timestamp >= 7 * 24
          /\ last.at - Val(Before[i].checked_at) < 7 * 24
    /\ Checked(Before) # <<>>
    /\ IsNone(get_accuracy_stats(last.pre, last.at).accuracy_7d)

-----------------------------------------------------------------------------
(* C24 *)

\* C24: two invocations of generate_prediction with the same arguments return
\* payloads equal in every field, and the store is as it was
C24_PureDeterministic ==
    ev.phase = "twice" =>
        /\ ev.first = ev.second
        /\ file = MissingFile

-----------------------------------------------------------------------------
(* C25 *)

\* a record of the log before the pass that can be evaluated at the time of
\* the pass: unchecked, with a timeframe that parses, mature, with a price
Evaluable(pred) ==
    /\ ~IsChecked(pred)
    /\ pred.timeframe.unit \in {"h", "d"}
    /\ last.at - pred.timestamp >= TimeframeHours(pred.timeframe)
    /\ ~IsNone(pred.price_at_prediction)
    /\ Val(pred.price_at_prediction) # 0

\* C25: after a pass whose price fetch succeeded, every record that was
\* unchecked, mature and evaluable before the pass is CHECKED in the store,
\* whatever the other records of the log are
C25_RecordsIndependent ==
    (last.op \in {"check", "check_raised"} /\ last.fetch.status = "ok"
        /\ last.pre.state = "json") =>
        \A i \in 1..Len(Before) :
            Evaluable(Before[i]) => (i <= Len(Stored) /\ IsChecked(Stored[i]))

-----------------------------------------------------------------------------
(* C27 *)

\* C27: an evaluation pass leaves the log as long as it was, with every record
\* at its place and with its id, timestamp, direction, confidence,
\* price_at_prediction, timeframe and signal_scores as they were; a record
\* whose outcome fields changed was unchecked and mature at the time of the
\* pass; the store file is untouched when no record became CHECKED
C27_PassFrame ==
    last.op = "check" =>
        /\ Len(Stored) = Len(Before)
        /\ \A i \in 1..Len(Before) :
              /\ Creation(Stored[i]) = Creation(Before[i])
              /\ Outcome(Stored[i]) # Outcome(Before[i]) =>
                    /\ ~IsChecked(Before[i])
                    /\ last.at - Before[i].timestamp >= TimeframeHours(Before[i].timeframe)
        /\ (\A i \in 1..Len(Before) : IsChecked(Stored[i]) => IsChecked(Before[i]))
              => file = last.pre

\* a pass with a successful fetch over a log of two records scored one of
\* them and left the other, and a pass over a file that does not parse
\* happened before
C27_Witness ==
    /\ last.op = "check"
    /\ last.fetch.status = "ok"
    /\ Len(Before) = 2
    /\ \E i, j \in 1..2 :
          /\ ~IsChecked(Before[i]) /\ IsChecked(Stored[i])
          /\ Stored[j] = Before[j]

-----------------------------------------------------------------------------
(* C28 *)

\* C28: a record that a pass marked CHECKED has as price_after the price that
\* the price source reported in that pass, and that price is above zero
C28_PositiveReferencePrice ==
    last.op = "check" =>
        \A i \in 1..Len(Before) :
            (~IsChecked(Before[i]) /\ i <= Len(Stored) /\ IsChecked(Stored[i])) =>
                /\ last.fetch.status = "ok"
                /\ Val(Stored[i].price_after) = last.fetch.price
                /\ Val(Stored[i].price_after) > 0

-----------------------------------------------------------------------------
(* C29 *)

Executing == {t \in Threads : pc[t] = "run"}

\* C29: at most one thread is inside run_pipeline at any time
C29_OneRunAtATime ==
    Cardinality(Executing) <= 1

\* two requests both passed the check of trigger_analysis; one thread runs
\* the pipeline and the other returned under the lock
C29_Witness ==
    \E t, u \in Threads : pc[t] = "run" /\ pc[u] = "returned"

-----------------------------------------------------------------------------
(* C30 *)

\* C30: the status is "running" only while a thread is inside run_pipeline,
\* and whenever it is "running" it later is "done" or "error"
C30_RunningEnds ==
    /\ [](ev.status = "running" => Executing # {})
    /\ (ev.status = "running") ~> (ev.status \in {"done", "error"})

\* a run ended and a later request started a new run
C30_Witness ==
    \E t, u \in Threads : pc[t] = "finished" /\ pc[u] = "run"
====
